---------------------------- MODULE Spec2Model ----------------------------
(***************************************************************************)
(* Peloton's DecentralizedEpochManager                                     *)
(* (src/include/concurrency/decentralized_epoch_manager.h).                *)
(*                                                                         *)
(* uint64_t values are kept exactly: a value is a tuple of four 16-bit     *)
(* limbs, most significant first, because the model checker's integers are *)
(* 32 bits wide.  uint32_t values are tuples of two limbs.  All arithmetic *)
(* wraps as the C++ unsigned types do.                                     *)
(*                                                                         *)
(* Granularity.  Worker threads, the reducer (the caller of                *)
(* GetTailEpochId) and the administrative calls interleave at the          *)
(* statements that touch shared memory; the labels Lnnn are the source     *)
(* lines a thread is about to execute.  The while loop of                  *)
(* IncreaseTailEpochId() is taken as one step.                             *)
(***************************************************************************)
EXTENDS Integers, Sequences, FiniteSets, TLC

\* ------------------------------------------------------------ bounds
\* EnterEpochD is called at most MaxTxn times in a run
MaxTxn == 2
\* a worker holds at most MaxInflight transactions at a time
MaxInflight == 2
\* the global epoch is advanced tick by tick up to MaxEpoch
MaxEpoch == 6
\* at most MaxDrivers tasks execute Running() at a time
MaxDrivers == 2

\* the thread ids the callers use
Threads == {1, 2}

\* ------------------------------------------------------- uint64_t / uint32_t
Limb == 2^16
LimbMax == Limb - 1

\* the uint64_t with value n, 0 <= n < 2^31
U64(n) == <<0, 0, n \div Limb, n % Limb>>

\* std::numeric_limits<uint64_t>::max()
UINT64_MAX == <<LimbMax, LimbMax, LimbMax, LimbMax>>

\* x + 1 (mod 2^64)
Inc64(x) ==
    IF x[4] < LimbMax THEN <<x[1], x[2], x[3], x[4] + 1>>
    ELSE IF x[3] < LimbMax THEN <<x[1], x[2], x[3] + 1, 0>>
    ELSE IF x[2] < LimbMax THEN <<x[1], x[2] + 1, 0, 0>>
    ELSE IF x[1] < LimbMax THEN <<x[1] + 1, 0, 0, 0>>
    ELSE <<0, 0, 0, 0>>

\* x - 1 (mod 2^64)
Dec64(x) ==
    IF x[4] > 0 THEN <<x[1], x[2], x[3], x[4] - 1>>
    ELSE IF x[3] > 0 THEN <<x[1], x[2], x[3] - 1, LimbMax>>
    ELSE IF x[2] > 0 THEN <<x[1], x[2] - 1, LimbMax, LimbMax>>
    ELSE IF x[1] > 0 THEN <<x[1] - 1, LimbMax, LimbMax, LimbMax>>
    ELSE UINT64_MAX

\* x < y, unsigned
Lt64(x, y) ==
    \/ x[1] < y[1]
    \/ x[1] = y[1] /\ x[2] < y[2]
    \/ x[1] = y[1] /\ x[2] = y[2] /\ x[3] < y[3]
    \/ x[1] = y[1] /\ x[2] = y[2] /\ x[3] = y[3] /\ x[4] < y[4]

Le64(x, y) == x = y \/ Lt64(x, y)

\* x + y (mod 2^64)
Add64(x, y) ==
    LET s4 == x[4] + y[4]
        s3 == x[3] + y[3] + s4 \div Limb
        s2 == x[2] + y[2] + s3 \div Limb
        s1 == x[1] + y[1] + s2 \div Limb
    IN  <<s1 % Limb, s2 % Limb, s3 % Limb, s4 % Limb>>

\* x - y (mod 2^64)
Sub64(x, y) ==
    LET d4 == x[4] - y[4]
        b4 == IF d4 < 0 THEN 1 ELSE 0
        d3 == x[3] - y[3] - b4
        b3 == IF d3 < 0 THEN 1 ELSE 0
        d2 == x[2] - y[2] - b3
        b2 == IF d2 < 0 THEN 1 ELSE 0
        d1 == x[1] - y[1] - b2
    IN  <<d1 % Limb, d2 % Limb, d3 % Limb, d4 % Limb>>

\* bitwise or of two limbs
RECURSIVE BitOr(_, _)
BitOr(a, b) ==
    IF a = 0 THEN b
    ELSE IF b = 0 THEN a
    ELSE (IF a % 2 = 1 \/ b % 2 = 1 THEN 1 ELSE 0) + 2 * BitOr(a \div 2, b \div 2)

\* x | y
Or64(x, y) == <<BitOr(x[1], y[1]), BitOr(x[2], y[2]), BitOr(x[3], y[3]), BitOr(x[4], y[4])>>

\* x << 32 and x >> 32 on a uint64_t
Shl32(x) == <<x[3], x[4], 0, 0>>
Shr32(x) == <<0, 0, x[1], x[2]>>

\* a uint32_t s widened to uint64_t
Zext32(s) == <<0, 0, s[1], s[2]>>

\* s + 1 (mod 2^32)
Inc32(s) ==
    IF s[2] < LimbMax THEN <<s[1], s[2] + 1>>
    ELSE IF s[1] < LimbMax THEN <<s[1] + 1, 0>>
    ELSE <<0, 0>>


\* ------------------------------------------------------------ constants
\* LocalEpochContext::epoch_buffer_size_
epoch_buffer_size_ == 4096

\* the values Reset is called with: 0, the next epochs, an epoch more than a
\* ring away from 1, and an epoch that does not fit in 32 bits
EpochTwo == U64(2)
EpochThree == U64(3)
EpochFar == U64(epoch_buffer_size_ + 1)
EpochWide == <<0, 1, 0, 2>>
ResetEpochs == {U64(0), EpochTwo, EpochThree, EpochFar, EpochWide}

\* ------------------------------------------------------------ state
VARIABLES
    current_global_epoch_,  \* std::atomic<uint64_t>
    next_txn_id_,           \* std::atomic<uint32_t>
    is_running_,            \* bool
    local_epoch_contexts_,  \* the map: registered thread id -> LocalEpochContext
    drivers,                \* number of tasks executing Running()
    iters,                  \* history: the parity of the completed iterations of Running()
    pc,                     \* worker -> the line it is about to execute
    epoch_id,               \* worker -> EnterEpochD's local epoch_id
    held,                   \* worker -> the transactions it has begun and not ended
    ro_held,                \* worker -> the epochs of its read-only transactions begun and not ended
    rpc,                    \* the reducer's line in GetTailEpochId
    todo,                   \* the contexts the reducer's for loop has yet to visit
    cur,                    \* the context the reducer's for loop is at
    arg_epoch,              \* the argument current_epoch_id of the call in progress
    local_epoch_id,         \* GetTailEpochId's local_epoch_id
    min_epoch_id,           \* GetTailEpochId's min_epoch_id
    issued,                 \* history: the cids EnterEpochD returned, in order
    visits,                 \* history: what the call in progress did at each context
    quiet                   \* history: no transaction and no EnterEpochD since the call began

mgr_vars == <<current_global_epoch_, next_txn_id_, local_epoch_contexts_>>
driver_vars == <<is_running_, drivers, iters>>
worker_vars == <<pc, epoch_id, held, ro_held, issued>>
reducer_vars == <<rpc, todo, cur, arg_epoch, local_epoch_id, min_epoch_id, visits>>
vars == <<mgr_vars, driver_vars, worker_vars, reducer_vars, quiet>>

NoEpoch == <<>>

\* Epoch::read_write_count_ / read_only_count_ of the whole epoch_buffer_: a
\* function from the slots whose count is not 0 to that count.  The counts are
\* size_t; a count of -k stands for 2^64 - k (a decrement below 0 wraps).
EmptyBuffer == <<>>
Count(buf, i) == IF i \in DOMAIN buf THEN buf[i] ELSE 0
AddCount(buf, i, d) ==
    LET dom == DOMAIN buf \cup {i}
        f == [j \in dom |-> Count(buf, j) + (IF j = i THEN d ELSE 0)]
    IN  [j \in {k \in dom : f[k] # 0} |-> f[j]]

\* LocalEpochContext()
NewContext ==
    [head |-> U64(0), tail |-> UINT64_MAX, rw |-> EmptyBuffer, ro |-> EmptyBuffer]

\* (size_t) epoch_id % epoch_buffer_size_ ; 4096 divides 2^16, so the low limb decides
EpochIdx(e) == e[4] % epoch_buffer_size_

\* the keys of local_epoch_contexts_
Registered == DOMAIN local_epoch_contexts_

\* ------------------------------------------------------------ LocalEpochContext
\* line 62: tail_epoch_id_ = epoch_id - 1
InitTail(c, e) == [c EXCEPT !.tail = Dec64(e)]

\* variant for sensitivity runs: a validation that accepts every epoch
RejectsNever(c, e) == FALSE

\* variant for sensitivity runs: a validation that refuses every epoch
RejectsAlways(c, e) == TRUE

\* line 70: if (epoch_id < head_epoch_id_) return false
Rejects(c, e) == Lt64(e, c.head)

\* line 77: head_epoch_id_ = epoch_id
SetHead(c, e) == [c EXCEPT !.head = e]

\* lines 82-83: epoch_buffer_[epoch_idx].read_write_count_++
EnterSlot(c, e) == [c EXCEPT !.rw = AddCount(c.rw, EpochIdx(e), 1)]

\* variant for sensitivity runs: an exit that leaves the slot's count as it is
ExitSlotKeep(c, e) == c

\* lines 120-121: epoch_buffer_[epoch_idx].read_write_count_--
ExitSlot(c, e) == [c EXCEPT !.rw = AddCount(c.rw, EpochIdx(e), -1)]

\* the set's least element
Least(S) == CHOOSE d \in S : \A o \in S : d <= o

\* variant of the loop for sensitivity runs: it stops one epoch early, at head - 2
TailAfterLoopShort(c) ==
    LET lim == Dec64(Dec64(c.head))
    IN  IF ~Lt64(c.tail, lim) \/ c.head = U64(0) \/ c.head = U64(1) THEN c.tail
        ELSE LET first == EpochIdx(Inc64(c.tail))
                 dists == {(i - first) % epoch_buffer_size_ : i \in DOMAIN c.rw}
                 gap == Sub64(lim, c.tail)
             IN  IF dists # {} /\ Lt64(U64(Least(dists)), gap)
                 THEN Add64(c.tail, U64(Least(dists)))
                 ELSE lim

\* IncreaseTailEpochId(): while tail < head - 1 and the slot of tail + 1 holds no
\* read-write transaction, tail++.  The loop passes the empty slots up to the
\* first slot with a count, or up to head - 1.
TailAfterLoop(c) ==
    LET lim == Dec64(c.head)
    IN  IF ~Lt64(c.tail, lim) THEN c.tail
        ELSE LET first == EpochIdx(Inc64(c.tail))
                 dists == {(i - first) % epoch_buffer_size_ : i \in DOMAIN c.rw}
                 gap == Sub64(lim, c.tail)
             IN  IF dists # {} /\ Lt64(U64(Least(dists)), gap)
                 THEN Add64(c.tail, U64(Least(dists)))
                 ELSE lim

IncreaseTailEpochId(c) == [c EXCEPT !.tail = TailAfterLoop(c)]

\* variant for sensitivity runs: the head write alone, no compare-and-swap
ResyncNoCas(c, g) == [c EXCEPT !.head = g]

\* IncreaseTailEpochId(current_epoch_id), lines 155-166: the head write and the
\* compare-and-swap of an uninitialized tail
Resync(c, g) ==
    LET c1 == [c EXCEPT !.head = g]
    IN  IF c1.tail = UINT64_MAX THEN [c1 EXCEPT !.tail = Dec64(c1.head)] ELSE c1

\* ------------------------------------------------------------ manager
\* line 252: (epoch_id << 32) | next_txn_id
MakeCid(e, s) == Or64(Shl32(e), Zext32(s))

\* variant for sensitivity runs: a shift by 16 bits
ExtractEpochId16(cid) == <<0, cid[1], cid[2], cid[3]>>

\* line 287
ExtractEpochId(cid) == Shr32(cid)

\* the low 32 bits of a uint64_t, as a uint32_t
Low32(x) == <<x[3], x[4]>>

\* the least of a set of uint64_t values
Min64(S) == CHOOSE x \in S : \A y \in S : Le64(x, y)

Init ==
    /\ current_global_epoch_ = U64(1)
    /\ next_txn_id_ = <<0, 0>>
    /\ is_running_ = FALSE
    /\ local_epoch_contexts_ = <<>>
    /\ drivers = 0
    /\ iters = 0
    /\ pc = [t \in Threads |-> "idle"]
    /\ epoch_id = [t \in Threads |-> NoEpoch]
    /\ held = [t \in Threads |-> {}]
    /\ ro_held = [t \in Threads |-> {}]
    /\ rpc = "idle"
    /\ todo = {}
    /\ cur = 0
    /\ arg_epoch = NoEpoch
    /\ local_epoch_id = NoEpoch
    /\ min_epoch_id = NoEpoch
    /\ issued = <<>>
    /\ visits = {}
    /\ quiet = FALSE

\* Reset(current_epoch)
Reset(e) ==
    /\ current_global_epoch_' = e
    /\ UNCHANGED <<next_txn_id_, local_epoch_contexts_, driver_vars, worker_vars,
                   reducer_vars, quiet>>

\* StartEpoch(): sets the flag and submits one more task running Running()
StartEpoch ==
    /\ drivers < MaxDrivers
    /\ is_running_' = TRUE
    /\ drivers' = drivers + 1
    /\ UNCHANGED <<iters, mgr_vars, worker_vars, reducer_vars, quiet>>

\* StopEpoch()
StopEpoch ==
    /\ is_running_' = FALSE
    /\ UNCHANGED <<drivers, iters, mgr_vars, worker_vars, reducer_vars, quiet>>

\* variant for sensitivity runs: an iteration that steps the epoch back
EpochAfterSleepBack(g) == Dec64(g)

\* what one iteration of Running()'s loop (the sleep_for) leaves in
\* current_global_epoch_
EpochAfterSleep(g) == g

\* Running(), one iteration of the loop: is_running_ holds, the task sleeps
RunningIteration ==
    /\ drivers > 0
    /\ is_running_
    /\ iters' = 1 - iters
    /\ current_global_epoch_' = EpochAfterSleep(current_global_epoch_)
    /\ UNCHANGED <<is_running_, drivers, next_txn_id_, local_epoch_contexts_,
                   worker_vars, reducer_vars, quiet>>

\* Running(): the loop finds is_running_ false and the task ends
RunningExit ==
    /\ drivers > 0
    /\ ~is_running_
    /\ drivers' = drivers - 1
    /\ UNCHANGED <<is_running_, iters, mgr_vars, worker_vars, reducer_vars, quiet>>

\* RegisterThread(thread_id); the caller registers a thread that is not registered
RegisterThread(t) ==
    /\ t \notin Registered
    /\ local_epoch_contexts_' =
           [u \in Registered \cup {t} |->
               IF u = t THEN NewContext ELSE local_epoch_contexts_[u]]
    /\ UNCHANGED <<current_global_epoch_, next_txn_id_, driver_vars, worker_vars,
                   reducer_vars, quiet>>

\* DeregisterThread(thread_id); the caller deregisters after the thread's last
\* ExitEpochD has returned
DeregisterThread(t) ==
    /\ t \in Registered
    /\ pc[t] = "idle"
    /\ held[t] = {}
    /\ ro_held[t] = {}
    /\ local_epoch_contexts_' = [u \in Registered \ {t} |-> local_epoch_contexts_[u]]
    /\ UNCHANGED <<current_global_epoch_, next_txn_id_, driver_vars, worker_vars,
                   reducer_vars, quiet>>

\* ------------------------------------------------------------ EnterEpochD
SetContext(t, c) == local_epoch_contexts_' = [local_epoch_contexts_ EXCEPT ![t] = c]

\* line 243: sample the global epoch
Sample(t) ==
    /\ epoch_id' = [epoch_id EXCEPT ![t] = current_global_epoch_]
    /\ pc' = [pc EXCEPT ![t] = "L61"]

\* EnterEpochD(thread_id), called by a registered thread
EnterEpochD(t) ==
    /\ t \in Registered
    /\ pc[t] = "idle"
    /\ Cardinality(held[t]) < MaxInflight
    /\ Len(issued) + Cardinality({u \in Threads : pc[u] # "idle"}) < MaxTxn
    /\ Sample(t)
    /\ quiet' = FALSE
    /\ UNCHANGED <<mgr_vars, driver_vars, held, ro_held, issued, reducer_vars>>

\* line 61: EnterLocalEpoch tests the tail
EnterL61(t) ==
    /\ pc[t] = "L61"
    /\ pc' = [pc EXCEPT ![t] =
                 IF local_epoch_contexts_[t].tail = UINT64_MAX THEN "L62" ELSE "L70"]
    /\ UNCHANGED <<mgr_vars, driver_vars, epoch_id, held, ro_held, issued, reducer_vars, quiet>>

\* line 62
EnterL62(t) ==
    /\ pc[t] = "L62"
    /\ SetContext(t, InitTail(local_epoch_contexts_[t], epoch_id[t]))
    /\ pc' = [pc EXCEPT ![t] = "L70"]
    /\ UNCHANGED <<current_global_epoch_, next_txn_id_, driver_vars, epoch_id, held, ro_held,
                   issued, reducer_vars, quiet>>

\* lines 70-72: the validation; a refusal returns to the loop of EnterEpochD
EnterL70(t) ==
    /\ pc[t] = "L70"
    /\ pc' = [pc EXCEPT ![t] =
                 IF Rejects(local_epoch_contexts_[t], epoch_id[t]) THEN "L243" ELSE "L74"]
    /\ UNCHANGED <<mgr_vars, driver_vars, epoch_id, held, ro_held, issued, reducer_vars, quiet>>

\* line 243 after a refusal: sample again
EnterRetry(t) ==
    /\ pc[t] = "L243"
    /\ Sample(t)
    /\ UNCHANGED <<mgr_vars, driver_vars, held, ro_held, issued, reducer_vars, quiet>>

\* the PL_ASSERTs, which change no state: line 74, line 80, lines 116 and 118
CheckL74(c, e) == ~Lt64(e, c.head)
CheckL80(c, e) == Le64(Sub64(e, c.tail), U64(epoch_buffer_size_))
CheckL116(c) == c.tail # UINT64_MAX
CheckL118(c, e) == Lt64(c.tail, e)

\* lines 74-77: head_epoch_id_ = epoch_id
EnterL74(t) ==
    /\ pc[t] = "L74"
    /\ SetContext(t, SetHead(local_epoch_contexts_[t], epoch_id[t]))
    /\ pc' = [pc EXCEPT ![t] = "L80"]
    /\ UNCHANGED <<current_global_epoch_, next_txn_id_, driver_vars, epoch_id, held, ro_held,
                   issued, reducer_vars, quiet>>

\* variant for sensitivity runs: a counter that does not move
NextTxnIdStuck(s) == s

\* GetNextTransactionId(): fetch_add(1) leaves s + 1 in next_txn_id_
NextTxnId(s) == Inc32(s)

\* lines 80-85 and 250-252: the slot's count, the transaction id, the cid returned
EnterL80(t) ==
    LET c == local_epoch_contexts_[t]
        e == epoch_id[t]
        txn == [tid |-> t, e |-> e, cid |-> MakeCid(e, next_txn_id_)]
    IN  /\ pc[t] = "L80"
        /\ SetContext(t, EnterSlot(c, e))
        /\ next_txn_id_' = NextTxnId(next_txn_id_)
        /\ held' = [held EXCEPT ![t] = @ \cup {txn}]
        /\ issued' = Append(issued, txn)
        /\ pc' = [pc EXCEPT ![t] = "idle"]
        /\ epoch_id' = [epoch_id EXCEPT ![t] = NoEpoch]
        /\ UNCHANGED <<current_global_epoch_, driver_vars, ro_held, reducer_vars, quiet>>

\* ------------------------------------------------------------ ExitEpochD
\* ExitEpochD(thread_id, begin_cid) with a cid the thread holds, and
\* ExitLocalEpoch(epoch_id), lines 116-124
ExitEpochD(t, txn) ==
    LET c == local_epoch_contexts_[t]
        e == ExtractEpochId(txn.cid)
    IN  /\ t \in Registered
        /\ pc[t] = "idle"
        /\ txn \in held[t]
        /\ SetContext(t, IncreaseTailEpochId(ExitSlot(c, e)))
        /\ held' = [held EXCEPT ![t] = @ \ {txn}]
        /\ UNCHANGED <<current_global_epoch_, next_txn_id_, driver_vars, pc, epoch_id,
                       ro_held, issued, reducer_vars, quiet>>

\* ------------------------------------------------------------ read-only epochs
\* lines 109-110: epoch_buffer_[epoch_idx].read_only_count_++
EnterReadOnlySlot(c, e) == [c EXCEPT !.ro = AddCount(c.ro, EpochIdx(e), 1)]

\* lines 133-134: epoch_buffer_[epoch_idx].read_only_count_--
ExitReadOnlySlot(c, e) == [c EXCEPT !.ro = AddCount(c.ro, EpochIdx(e), -1)]

\* the PL_ASSERTs of ExitLocalReadOnlyEpoch, lines 129 and 131
CheckL129(c) == c.tail # UINT64_MAX
CheckL131(c, e) == Lt64(c.tail, e)

\* EnterLocalReadOnlyEpoch(epoch_id), lines 89-113, called on the thread's
\* context with the global epoch, as EnterEpochD calls EnterLocalEpoch
EnterLocalReadOnlyEpoch(t) ==
    LET e == current_global_epoch_
        c == local_epoch_contexts_[t]
        c1 == IF c.tail = UINT64_MAX THEN InitTail(c, e) ELSE c
    IN  /\ t \in Registered
        /\ pc[t] = "idle"
        /\ e \notin ro_held[t]
        /\ Cardinality(ro_held[t]) < MaxInflight
        /\ IF Rejects(c1, e)
           THEN /\ SetContext(t, c1)
                /\ UNCHANGED ro_held
           ELSE /\ SetContext(t, EnterReadOnlySlot(SetHead(c1, e), e))
                /\ ro_held' = [ro_held EXCEPT ![t] = @ \cup {e}]
        /\ UNCHANGED <<current_global_epoch_, next_txn_id_, driver_vars, pc, epoch_id,
                       held, issued, reducer_vars, quiet>>

\* ExitLocalReadOnlyEpoch(epoch_id), lines 128-138, with an epoch that a
\* successful EnterLocalReadOnlyEpoch was given and that was not exited since
ExitLocalReadOnlyEpoch(t, e) ==
    LET c == local_epoch_contexts_[t]
    IN  /\ t \in Registered
        /\ pc[t] = "idle"
        /\ e \in ro_held[t]
        /\ SetContext(t, IncreaseTailEpochId(ExitReadOnlySlot(c, e)))
        /\ ro_held' = [ro_held EXCEPT ![t] = @ \ {e}]
        /\ UNCHANGED <<current_global_epoch_, next_txn_id_, driver_vars, pc, epoch_id,
                       held, issued, reducer_vars, quiet>>

\* ------------------------------------------------------------ GetTailEpochId
\* the epochs of the transactions in flight
InFlight == {txn.e : txn \in UNION {held[t] : t \in Threads}}

\* no transaction is in flight and no thread is inside EnterEpochD
Quiescent == InFlight = {} /\ \A t \in Threads : pc[t] = "idle"

\* line 270, and the for loop's begin()
GetTailEpochId ==
    /\ rpc = "idle"
    /\ rpc' = "L272"
    /\ min_epoch_id' = UINT64_MAX
    /\ todo' = Registered
    /\ visits' = {}
    /\ quiet' = Quiescent
    /\ UNCHANGED <<cur, arg_epoch, local_epoch_id, mgr_vars, driver_vars,
                   worker_vars>>

\* line 272 with a context left, and the load of current_global_epoch_ at line 274
ReducerNext(t) ==
    /\ rpc = "L272"
    /\ t \in todo
    /\ cur' = t
    /\ todo' = todo \ {t}
    /\ arg_epoch' = current_global_epoch_
    /\ rpc' = "L155"
    /\ UNCHANGED <<local_epoch_id, min_epoch_id, visits, mgr_vars,
                   driver_vars, worker_vars, quiet>>

\* lines 155-166
ReducerL155 ==
    LET c == local_epoch_contexts_[cur]
    IN  /\ rpc = "L155"
        /\ SetContext(cur, Resync(c, arg_epoch))
        /\ visits' = visits \cup {[tid |-> cur, g |-> arg_epoch,
                                   uninit |-> c.tail = UINT64_MAX, reported |-> NoEpoch]}
        /\ rpc' = "L167"
        /\ UNCHANGED <<current_global_epoch_, next_txn_id_, todo, cur, arg_epoch,
                       local_epoch_id, min_epoch_id, driver_vars, worker_vars,
                       quiet>>

\* lines 167 and 175: the loop, and the tail returned to GetTailEpochId
ReducerL167 ==
    LET c == IncreaseTailEpochId(local_epoch_contexts_[cur])
    IN  /\ rpc = "L167"
        /\ SetContext(cur, c)
        /\ local_epoch_id' = c.tail
        /\ visits' = {IF v.tid = cur THEN [v EXCEPT !.reported = c.tail] ELSE v :
                         v \in visits}
        /\ rpc' = "L276"
        /\ UNCHANGED <<current_global_epoch_, next_txn_id_, todo, cur, arg_epoch,
                       min_epoch_id, driver_vars, worker_vars, quiet>>

\* lines 276-278: what min_epoch_id is after the comparison
MinAfter(m, local, c) == IF Lt64(local, m) THEN c.tail ELSE m

ReducerL276 ==
    /\ rpc = "L276"
    /\ min_epoch_id' = MinAfter(min_epoch_id, local_epoch_id, local_epoch_contexts_[cur])
    /\ rpc' = "L272"
    /\ cur' = 0
    /\ arg_epoch' = NoEpoch
    /\ local_epoch_id' = NoEpoch
    /\ UNCHANGED <<todo, visits, mgr_vars, driver_vars, worker_vars, quiet>>

\* line 281: the call returns min_epoch_id
ReducerReturn ==
    /\ rpc = "L272"
    /\ todo = {}
    /\ rpc' = "idle"
    /\ min_epoch_id' = NoEpoch
    /\ visits' = {}
    /\ quiet' = FALSE
    /\ UNCHANGED <<todo, cur, arg_epoch, local_epoch_id, mgr_vars, driver_vars,
                   worker_vars>>

\* ------------------------------------------------------------ specifications
Worker(t) ==
    \/ EnterEpochD(t)
    \/ EnterL61(t)
    \/ EnterL62(t)
    \/ EnterL70(t)
    \/ EnterRetry(t)
    \/ EnterL74(t)
    \/ EnterL80(t)
    \/ \E txn \in held[t] : ExitEpochD(t, txn)

Reducer ==
    \/ GetTailEpochId
    \/ \E t \in todo : ReducerNext(t)
    \/ ReducerL155
    \/ ReducerL167
    \/ ReducerL276
    \/ ReducerReturn

\* the map changes while no GetTailEpochId call is iterating over it
Registry(T) ==
    /\ rpc = "idle"
    /\ \E t \in T : RegisterThread(t) \/ DeregisterThread(t)

Driver ==
    \/ StartEpoch
    \/ StopEpoch
    \/ RunningIteration
    \/ RunningExit

\* Reset called with a later epoch: the global epoch advances
AdvanceEpoch(e) == Lt64(current_global_epoch_, e) /\ Reset(e)

\* one tick: Reset called with the epoch after the current one
Tick ==
    /\ Lt64(current_global_epoch_, U64(MaxEpoch))
    /\ Reset(Inc64(current_global_epoch_))

\* no call of a worker or of the reducer is in progress
NoCall == rpc = "idle" /\ \A t \in Threads : pc[t] = "idle"

\* every operation, Reset with any value at any time
Next ==
    \/ \E t \in Threads : Worker(t)
    \/ Reducer
    \/ Registry(Threads)
    \/ Driver
    \/ \E e \in ResetEpochs : Reset(e)

Spec == Init /\ [][Next]_vars

\* every operation, one call at a time: a call begins when no other is in progress
NextSerial ==
    \/ (NoCall \/ pc[1] # "idle") /\ Worker(1)
    \/ (NoCall \/ rpc # "idle") /\ Reducer
    \/ NoCall /\ Registry(Threads)
    \/ NoCall /\ Driver
    \/ \E e \in {EpochTwo, EpochWide} : NoCall /\ Reset(e)

SpecSerial == Init /\ [][NextSerial]_vars

\* the workers and the reducer interleave while the global epoch advances
NextAdvance ==
    \/ \E t \in Threads : Worker(t)
    \/ Reducer
    \/ Registry(Threads)
    \/ \E e \in {EpochTwo, EpochThree} : AdvanceEpoch(e)

SpecAdvance == Init /\ [][NextAdvance]_vars

\* thread 1 works and the reducer interleaves with it; the other threads register
\* and stay idle; the global epoch advances, also by more than a ring
NextIdle ==
    \/ Worker(1)
    \/ Reducer
    \/ Registry(Threads)
    \/ \E e \in {EpochTwo, EpochThree, EpochFar} : AdvanceEpoch(e)

SpecIdle == Init /\ [][NextIdle]_vars

\* the workers interleave, with no reducer, while Reset moves the global epoch
\* between an epoch below 2^32 and one above
NextCid ==
    \/ \E t \in Threads : Worker(t)
    \/ Registry(Threads)
    \/ \E e \in {EpochTwo, EpochWide} : Reset(e)

SpecCid == Init /\ [][NextCid]_vars

\* thread 1 registers once and works, the reducer interleaves with it and the
\* global epoch advances; the scheduler is fair to thread 1: a step of it that
\* stays possible is eventually taken
NextEnter ==
    \/ Worker(1)
    \/ Reducer
    \/ rpc = "idle" /\ RegisterThread(1)
    \/ \E e \in {EpochTwo, EpochThree} : AdvanceEpoch(e)

SpecEnter == Init /\ [][NextEnter]_vars /\ WF_vars(Worker(1))

\* thread 1 works and the reducer interleaves with it, while Reset moves the
\* global epoch between 0 and 2
NextZero ==
    \/ Worker(1)
    \/ Reducer
    \/ Registry({1})
    \/ \E e \in {U64(0), EpochTwo} : Reset(e)

SpecZero == Init /\ [][NextZero]_vars

\* ---- IncreaseTailEpochId() on its own, one iteration of the while loop a step
\* variant for sensitivity runs: a slot counts as empty only if both counts are 0
SlotEmptyBoth(c, i) == Count(c.rw, i) = 0 /\ Count(c.ro, i) = 0

\* line 144: epoch_buffer_[epoch_idx].read_write_count_ == 0
SlotEmpty(c, i) == Count(c.rw, i) = 0

\* line 142: tail_epoch_id_ < head_epoch_id_ - 1
LoopGuard(c) == Lt64(c.tail, Dec64(c.head))

\* the epochs the loop is tried at: near 0, and near the end of the ring
LoopBases == {0, epoch_buffer_size_ - 3}
LoopEpochs(b) == {U64(b + k) : k \in 0..MaxEpoch}

\* the counts the loop is tried with: at most two slots with read-write
\* transactions and at most one with read-only transactions
LoopBuffers(b, n) ==
    {[i \in S |-> 1] : S \in {T \in SUBSET {EpochIdx(e) : e \in LoopEpochs(b)} :
                                    Cardinality(T) <= n}}

\* the contexts the loop is tried on, for the given bases
LoopContexts(bases) ==
    UNION {{[head |-> h, tail |-> t, rw |-> rw, ro |-> ro] :
               h \in LoopEpochs(b) \ {U64(0)}, t \in LoopEpochs(b) \cup {UINT64_MAX},
               rw \in LoopBuffers(b, 2), ro \in LoopBuffers(b, 1)} : b \in bases}

\* thread 1 is in IncreaseTailEpochId() on its context; context 2 is a copy of
\* the context the loop starts from, its read-only counts cleared, and no step
\* touches it
InitLoop ==
    /\ \E c \in LoopContexts(LoopBases) :
           local_epoch_contexts_ = <<c, [c EXCEPT !.ro = EmptyBuffer]>>
    /\ pc = <<"L142", "idle">>
    /\ current_global_epoch_ = U64(1)
    /\ next_txn_id_ = <<0, 0>>
    /\ is_running_ = FALSE
    /\ drivers = 0
    /\ iters = 0
    /\ epoch_id = [t \in Threads |-> NoEpoch]
    /\ held = [t \in Threads |-> {}]
    /\ ro_held = [t \in Threads |-> {}]
    /\ rpc = "idle"
    /\ todo = {}
    /\ cur = 0
    /\ arg_epoch = NoEpoch
    /\ local_epoch_id = NoEpoch
    /\ min_epoch_id = NoEpoch
    /\ issued = <<>>
    /\ visits = {}
    /\ quiet = FALSE

\* lines 142-145: the guard and the slot test pass, tail_epoch_id_++
LoopIterate(t) ==
    LET c == local_epoch_contexts_[t]
    IN  /\ pc[t] = "L142"
        /\ LoopGuard(c) /\ SlotEmpty(c, EpochIdx(Inc64(c.tail)))
        /\ SetContext(t, [c EXCEPT !.tail = Inc64(c.tail)])
        /\ UNCHANGED <<current_global_epoch_, next_txn_id_, driver_vars, worker_vars,
                       reducer_vars, quiet>>

\* lines 142 and 146-148: the guard fails, or the slot test fails and the loop breaks
LoopExit(t) ==
    LET c == local_epoch_contexts_[t]
    IN  /\ pc[t] = "L142"
        /\ ~(LoopGuard(c) /\ SlotEmpty(c, EpochIdx(Inc64(c.tail))))
        /\ pc' = [pc EXCEPT ![t] = "idle"]
        /\ UNCHANGED <<mgr_vars, driver_vars, epoch_id, held, ro_held, issued, reducer_vars,
                       quiet>>

NextLoop == LoopIterate(1) \/ LoopExit(1)

SpecLoop == InitLoop /\ [][NextLoop]_vars

\* thread 1 begins and ends read-only transactions, one at a time, and
\* read-write transactions, the reducer is called and the global epoch advances;
\* each call runs to its end before the next begins
NextReadOnly ==
    \/ NoCall /\ ro_held[1] = {} /\ EnterLocalReadOnlyEpoch(1)
    \/ \E e \in ro_held[1] : NoCall /\ ExitLocalReadOnlyEpoch(1, e)
    \/ (NoCall \/ pc[1] # "idle") /\ Worker(1)
    \/ (NoCall \/ rpc # "idle") /\ Reducer
    \/ NoCall /\ Registry({1})
    \/ \E e \in {EpochTwo, EpochThree} : NoCall /\ AdvanceEpoch(e)

SpecReadOnly == Init /\ [][NextReadOnly]_vars

\* a PL_ASSERT of EnterLocalEpoch is about to fail: in a build with assertions
\* the program stops there
Aborted ==
    \E t \in Registered :
        \/ pc[t] = "L74" /\ ~CheckL74(local_epoch_contexts_[t], epoch_id[t])
        \/ pc[t] = "L80" /\ ~CheckL80(local_epoch_contexts_[t], epoch_id[t])

\* the PL_ASSERTs of ExitLocalEpoch pass in the ExitEpochD this step takes, if any
ExitChecked ==
    \A t \in Registered :
        \A txn \in held[t] \ held'[t] :
            /\ CheckL116(local_epoch_contexts_[t])
            /\ CheckL118(local_epoch_contexts_[t], ExtractEpochId(txn.cid))

\* SpecIdle in a build with assertions: no step is taken once a PL_ASSERT fails
NextAssert == ~Aborted /\ NextIdle /\ ExitChecked

SpecAssert == Init /\ [][NextAssert]_vars

\* ------------------------------------------------------------ the registry
\* and a GetTailEpochId call in progress.  GetTailEpochId (lines 269-282) does
\* not take local_epoch_context_lock_, so RegisterThread and DeregisterThread
\* run while the for loop of line 272 holds an iterator into the map.

\* the lines at which the reducer uses the reference local_epoch_context
ContextLines == {"L155", "L167", "L276"}

\* what a load of tail_epoch_id_ from a destroyed LocalEpochContext can give
FreedValues(g) == {U64(0), Dec64(g), UINT64_MAX}

\* RegisterThread(t), lines 221-227, during the for loop: the insert may rehash
\* the table, after which the loop's iterator continues over some part of it.
\* t is not the id the loop is at.
RegisterThreadRacing(t) ==
    /\ rpc # "idle"
    /\ t \notin Registered
    /\ t # cur
    /\ local_epoch_contexts_' =
           [u \in Registered \cup {t} |->
               IF u = t THEN NewContext ELSE local_epoch_contexts_[u]]
    /\ todo' \in SUBSET (Registered \cup {t})
    /\ UNCHANGED <<current_global_epoch_, next_txn_id_, driver_vars, worker_vars,
                   rpc, cur, arg_epoch, local_epoch_id, min_epoch_id, visits, quiet>>

\* DeregisterThread(t), lines 229-235, during the for loop: the node is unlinked
\* and the context destroyed; the loop's reference stays what it was
DeregisterThreadRacing(t) ==
    /\ rpc # "idle"
    /\ t \in Registered
    /\ pc[t] = "idle"
    /\ held[t] = {}
    /\ ro_held[t] = {}
    /\ local_epoch_contexts_' = [u \in Registered \ {t} |-> local_epoch_contexts_[u]]
    /\ todo' = todo \ {t}
    /\ UNCHANGED <<current_global_epoch_, next_txn_id_, driver_vars, worker_vars,
                   rpc, cur, arg_epoch, local_epoch_id, min_epoch_id, visits, quiet>>

\* lines 155-167, 175 and 276-277 on a context that was destroyed: the stores go
\* to freed memory and the loads give any value
ReducerFreed ==
    /\ rpc \in ContextLines
    /\ cur \notin Registered
    /\ rpc' = CASE rpc = "L155" -> "L167"
                [] rpc = "L167" -> "L276"
                [] rpc = "L276" -> "L272"
    /\ local_epoch_id' \in CASE rpc = "L155" -> {local_epoch_id}
                            [] rpc = "L167" -> FreedValues(arg_epoch)
                            [] rpc = "L276" -> {NoEpoch}
    /\ min_epoch_id' \in IF rpc = "L276" /\ Lt64(local_epoch_id, min_epoch_id)
                          THEN FreedValues(arg_epoch)
                          ELSE {min_epoch_id}
    /\ cur' = IF rpc = "L276" THEN 0 ELSE cur
    /\ arg_epoch' = IF rpc = "L276" THEN NoEpoch ELSE arg_epoch
    /\ UNCHANGED <<todo, visits, mgr_vars, driver_vars, worker_vars, quiet>>

\* the reducer's steps on a context that is in the map
ReducerLive ==
    \/ GetTailEpochId
    \/ \E t \in todo : ReducerNext(t)
    \/ cur \in Registered /\ ReducerL155
    \/ cur \in Registered /\ ReducerL167
    \/ cur \in Registered /\ ReducerL276
    \/ ReducerReturn

\* no thread runs a transaction: the contexts are touched by the reducer only
NextRace ==
    \/ ReducerLive
    \/ ReducerFreed
    \/ Registry(Threads)
    \/ \E t \in Threads : RegisterThreadRacing(t)
    \/ \E t \in Threads : DeregisterThreadRacing(t)
    \/ AdvanceEpoch(EpochTwo)

SpecRace == Init /\ [][NextRace]_vars

\* scenario S2: two workers, the reducer and the ticks, one call at a time
NextPin ==
    \/ \E t \in Threads : (NoCall \/ pc[t] # "idle") /\ Worker(t)
    \/ (NoCall \/ rpc # "idle") /\ Reducer
    \/ NoCall /\ Registry(Threads)
    \/ NoCall /\ Tick

SpecPin == Init /\ [][NextPin]_vars

\* ------------------------------------------------------------ properties
Ctx(t) == local_epoch_contexts_[t]

\* GetTailEpochId is about to return min_epoch_id
Returning == rpc = "L272" /\ todo = {}

\* C1 (tail safety): a transaction that began in epoch e on thread t and has not
\* exited keeps t's tail below e, and every value GetTailEpochId returns while
\* it is in flight is below e.
C1_TailSafety ==
    /\ \A t \in Registered : \A txn \in held[t] : Lt64(Ctx(t).tail, txn.e)
    /\ Returning => \A e \in InFlight : Lt64(min_epoch_id, e)

\* C2 (ring bound), as claimed: head - tail <= epoch_buffer_size_ for every
\* registered context in every reachable state, the states in the middle of the
\* reducer's IncreaseTailEpochId(current_epoch_id) on that context set aside.
C2_RingBound ==
    \A t \in Registered :
        (Lt64(Ctx(t).tail, Ctx(t).head) /\ ~(rpc = "L167" /\ cur = t)) =>
            Le64(Sub64(Ctx(t).head, Ctx(t).tail), U64(epoch_buffer_size_))

\* C3 (driver): every iteration of Running()'s loop increments
\* current_global_epoch_ by one.
C3_DriverIncrements ==
    [][iters' # iters => current_global_epoch_' = Inc64(current_global_epoch_)]_vars

\* C4 (monotone global epoch), as claimed: over any sequence of operations the
\* global epoch never decreases.
C4_Monotone == [][Le64(current_global_epoch_, current_global_epoch_')]_vars

\* C4, amended: the global epoch starts at 1, only Reset and the driver's loop
\* write it, and every step other than a Reset with a smaller value leaves it no
\* smaller than it was.
C4_MonotoneButReset ==
    /\ current_global_epoch_ = U64(1)
    /\ [][ /\ current_global_epoch_' # current_global_epoch_ =>
                  (iters' # iters \/ \E e \in ResetEpochs : Reset(e))
           /\ \/ Le64(current_global_epoch_, current_global_epoch_')
              \/ \E e \in ResetEpochs : Lt64(e, current_global_epoch_) /\ Reset(e) ]_vars

\* C4 witness: Reset has raised the epoch, the driver loop has iterated, and a
\* transaction has entered at the raised epoch.
C4_Witness ==
    /\ current_global_epoch_ = EpochWide
    /\ iters = 1
    /\ \E i \in DOMAIN issued : issued[i].e = EpochWide

\* C5 (monotone local head): when a thread that holds a transaction it entered
\* at epoch e, and so left e in head, is in EnterEpochD again and about to read
\* head, head is at least e.
C5_MonotoneHead ==
    \A t \in Registered :
        pc[t] = "L70" => \A txn \in held[t] : Le64(txn.e, Ctx(t).head)

\* C6 (cid uniqueness): every cid returned is (e << 32) | s for the epoch e
\* sampled, no two cids returned at one epoch carry the same s, and no two
\* calls return the same cid.
C6_CidUnique ==
    \A i, j \in DOMAIN issued :
        /\ issued[i].cid = Or64(Shl32(issued[i].e), Zext32(Low32(issued[i].cid)))
        /\ i # j => issued[i].cid # issued[j].cid
        /\ (i # j /\ issued[i].e = issued[j].e) =>
               Low32(issued[i].cid) # Low32(issued[j].cid)

\* C6 witness: two threads have entered at the same epoch.
C6_Witness ==
    \E i, j \in DOMAIN issued :
        /\ issued[i].tid # issued[j].tid
        /\ issued[i].e = issued[j].e

SampledLessOne == {Dec64(v.g) : v \in visits}

\* C8 (quiescent progression): a GetTailEpochId call during which no transaction
\* is in flight and no thread enters returns, for every context, a tail of at
\* least the epoch sampled for it less one, and so at least the earliest epoch
\* it sampled less one.
C8_QuiescentProgression ==
    (Returning /\ quiet) =>
        /\ \A v \in visits : Le64(Dec64(v.g), v.reported)
        /\ Le64(Min64(SampledLessOne \cup {UINT64_MAX}), min_epoch_id)

\* C8 witness: thread 1 entered at epoch 1 and exited, the epoch advanced to 3,
\* and a quiescent call moved its tail to 2 and is about to return.
C8_Witness ==
    /\ Returning /\ quiet
    /\ Len(issued) > 0 /\ issued[1].e = U64(1)
    /\ \E v \in visits :
          /\ v.tid = issued[1].tid /\ ~v.uninit
          /\ v.g = EpochThree /\ v.reported = U64(2)

\* the thread has not entered, and is not entering
NeverEntered(t) == pc[t] = "idle" /\ \A i \in DOMAIN issued : issued[i].tid # t

\* C9 (idle thread resync), as claimed: a call moves the tail of a context whose
\* thread never entered from UINT64_MAX to the epoch sampled less one, and
\* returns at least that.
C9_IdleResync ==
    Returning =>
        \A v \in visits :
            (v.uninit /\ NeverEntered(v.tid)) =>
                /\ v.reported = Dec64(v.g)
                /\ Le64(Dec64(v.g), min_epoch_id)

\* C9, amended: the call moves that tail to the epoch sampled less one, and
\* returns at least that when the context is the only one registered.
C9_IdleResyncAlone ==
    Returning =>
        \A v \in visits :
            (v.uninit /\ NeverEntered(v.tid)) =>
                /\ v.reported = Dec64(v.g)
                /\ Ctx(v.tid).tail = Dec64(v.g)
                /\ visits = {v} => Le64(Dec64(v.g), min_epoch_id)

\* C9 witness: the only registered thread never entered, the epoch advanced to
\* 3, and the call is about to return 2.
C9_Witness ==
    /\ Returning
    /\ min_epoch_id = U64(2)
    /\ \E v \in visits :
          /\ visits = {v} /\ v.uninit /\ NeverEntered(v.tid)
          /\ v.g = EpochThree

\* C10 (the reduction): GetTailEpochId returns the least of the tails the
\* contexts reported, and UINT64_MAX when no context is registered.
C10_ReturnsMinReported ==
    Returning =>
        min_epoch_id = Min64({v.reported : v \in visits} \cup {UINT64_MAX})

\* the epoch of the oldest transaction thread 1 holds
PinEpoch == Min64({txn.e : txn \in held[1]})

\* thread 1 holds a transaction and thread 2 holds none that is older
Pinned ==
    /\ Registered = {1, 2}
    /\ held[1] # {}
    /\ \A txn \in held[2] : Le64(PinEpoch, txn.e)

\* thread 1's transaction of epoch e has exited, nothing is in flight, and the
\* call about to return sampled, for every context, an epoch at least e + 5
Released(e) ==
    /\ Returning /\ quiet
    /\ Registered = {1, 2}
    /\ \E i \in DOMAIN issued : issued[i].tid = 1 /\ issued[i].e = e
    /\ \A v \in visits : Le64(Add64(e, U64(5)), v.g)

\* the epochs thread 1 entered at
PinEpochs == {issued[i].e : i \in {j \in DOMAIN issued : issued[j].tid = 1}}

Raced(t) ==
    /\ t \in Registered
    /\ pc[t] \in {"L61", "L62", "L70"}
    /\ Lt64(epoch_id[t], Ctx(t).head)

\* C12 (validation race): once the reducer has raised head above the epoch e a
\* worker sampled, the worker's EnterLocalEpoch(e) refuses and changes no slot;
\* the retry samples the global epoch again and finds it above e; and the cid
\* returned carries the epoch of the sample that was accepted.
C12_ValidationRace ==
    [][\A t \in Threads :
          /\ Raced(t) =>
                /\ pc'[t] \in {"L61", "L62", "L70", "L243"}
                /\ pc'[t] # "L243" => Raced(t)'
                /\ Ctx(t)'.rw = Ctx(t).rw
                /\ held'[t] = held[t]
          /\ (pc[t] = "L243" /\ pc'[t] # "L243") =>
                /\ pc'[t] = "L61"
                /\ epoch_id'[t] = current_global_epoch_
                /\ Lt64(epoch_id[t], epoch_id'[t])
          /\ (pc[t] = "L80" /\ pc'[t] # "L80") =>
                \E txn \in held'[t] \ held[t] :
                    /\ txn.e = epoch_id[t]
                    /\ ExtractEpochId(txn.cid) = epoch_id[t]
                    /\ issued' = Append(issued, txn)
      ]_vars

\* C12 witness: thread 1 sampled epoch 1, the reducer raised head to 2 before
\* line 61 ran, EnterLocalEpoch refused with every slot empty, and the retry is
\* about to sample again.
C12_Witness ==
    /\ 1 \in Registered
    /\ pc[1] = "L243"
    /\ epoch_id[1] = U64(1)
    /\ Ctx(1).head = EpochTwo
    /\ Ctx(1).tail = U64(1)
    /\ Ctx(1).rw = EmptyBuffer

\* C13 (driver lifecycle): over any sequence of StartEpoch and StopEpoch calls at
\* most one task is executing Running(); a StartEpoch while one is running adds
\* none.
C13_SingleDriver == drivers <= 1

C15_NeverUninitAgain ==
    [][\A t \in Registered \cap DOMAIN local_epoch_contexts_' :
          /\ Ctx(t).tail # UINT64_MAX => Ctx(t)'.tail # UINT64_MAX
          /\ (pc[t] \in {"L61", "L62"} /\ pc'[t] = "L70") => Ctx(t)'.tail # UINT64_MAX
      ]_vars

\* the number of times the loop has incremented the tail of context 1
LoopSteps == Sub64(Ctx(1).tail, Ctx(2).tail)[4]

\* C16 (the loop consults read-write counts only): when IncreaseTailEpochId()
\* returns, the tail is where it was if it was not below head - 1; otherwise
\* every slot passed has a read-write count of 0, whatever its read-only
\* count, and the loop has stopped at head - 1 or before the first slot with a
\* read-write count.  The result is the one computed from the context with its
\* read-only counts cleared.
C16_ReadWriteOnly ==
    pc[1] = "idle" =>
        /\ Ctx(1).tail = TailAfterLoop(Ctx(2))
        /\ ~LoopGuard(Ctx(2)) => Ctx(1).tail = Ctx(2).tail
        /\ LoopGuard(Ctx(2)) =>
              /\ Ctx(1).tail = Add64(Ctx(2).tail, U64(LoopSteps))
              /\ \A k \in 1..LoopSteps :
                     Count(Ctx(1).rw, EpochIdx(Add64(Ctx(2).tail, U64(k)))) = 0
              /\ \/ Ctx(1).tail = Dec64(Ctx(1).head)
                 \/ Count(Ctx(1).rw, EpochIdx(Inc64(Ctx(1).tail))) # 0

\* C16 witness: the loop has returned after passing a slot that holds a
\* read-only transaction, and has stopped before a slot that holds a read-write
\* transaction, short of head - 1.
C16_Witness ==
    /\ pc[1] = "idle"
    /\ LoopGuard(Ctx(2))
    /\ LoopSteps >= 2
    /\ \E k \in 1..LoopSteps :
           Count(Ctx(1).ro, EpochIdx(Add64(Ctx(2).tail, U64(k)))) # 0
    /\ Count(Ctx(1).rw, EpochIdx(Inc64(Ctx(1).tail))) # 0
    /\ Lt64(Ctx(1).tail, Dec64(Ctx(1).head))

\* C17 (exit assertions): whenever a thread can call ExitEpochD with a cid it
\* holds, the PL_ASSERTs of lines 116 and 118 pass: the tail is not UINT64_MAX
\* and the epoch decoded from the cid is above the tail.
C17_ExitAsserts ==
    \A t \in Registered :
        pc[t] = "idle" =>
            \A txn \in held[t] :
                /\ CheckL116(Ctx(t))
                /\ CheckL118(Ctx(t), ExtractEpochId(txn.cid))

\* C18 (read-only exit assertion): whenever ExitLocalReadOnlyEpoch(e) can run
\* for an epoch e of a read-only transaction begun and not ended, the
\* PL_ASSERT of line 131 passes: e is above the tail.
C18_ReadOnlyExitAssert ==
    \A t \in Registered :
        pc[t] = "idle" => \A e \in ro_held[t] : CheckL131(Ctx(t), e)

\* the transactions thread t holds whose epoch falls in slot i
HeldInSlot(t, i) == {txn \in held[t] : EpochIdx(txn.e) = i}

\* C19 (slot accounting): for every registered context the read_write_count_ of
\* each slot is the number of the thread's transactions in flight whose epoch
\* falls in the slot, no count is below 0, and two transactions in flight in
\* one slot have the same epoch.
C19_SlotAccounting ==
    \A t \in Registered :
        /\ \A i \in DOMAIN Ctx(t).rw \cup {EpochIdx(txn.e) : txn \in held[t]} :
               Count(Ctx(t).rw, i) = Cardinality(HeldInSlot(t, i))
        /\ \A i \in DOMAIN Ctx(t).rw : Ctx(t).rw[i] > 0
        /\ \A a, b \in held[t] : EpochIdx(a.e) = EpochIdx(b.e) => a.e = b.e

\* C20 (registry lifetime): a GetTailEpochId call takes no step on a context
\* that DeregisterThread has erased, and the map gains and loses no entry while
\* a call is in progress.
C20_RegistryLifetime ==
    [][/\ (rpc \in ContextLines /\ rpc' # rpc) => cur \in Registered
       /\ rpc # "idle" => DOMAIN local_epoch_contexts_' = Registered]_vars

==========================================================================
